---- MODULE Spec2Model ----
(***************************************************************************)
(* Model of src/render/draw_fill_extrusion.js: the two-pass drawing of     *)
(* fill-extrusion layers.  draw() is modelled as a function from the       *)
(* machine state (painter, GL context, layers, issued GL commands) to the  *)
(* machine state after the call; the actions apply it under the render     *)
(* loop that calls it.                                                     *)
(***************************************************************************)
EXTENDS Integers, Sequences, FiniteSets, TLC

VARIABLES painter, context, layers, host, gpu, frame, last

vars == <<painter, context, layers, host, gpu, frame, last>>

----------------------------------------------------------------------------
(* Bounds of the model.                                                    *)

\* longest visible-tile list handed to one draw() call of the frame loop
MaxTiles == 2
\* longest visible-tile list of one accumulation pass in the pass-level model
MaxPassTiles == 4
\* longest visible-tile list in the model of the per-draw uniforms
MaxDrawTiles == 2
\* largest overscaled zoom of a tile in the model of the per-draw uniforms
MaxZoom == 2

Layers == {"L1", "L2"}
\* fill-extrusion-opacity, in tenths
Opacities == {0, 5, 10}
ViewportSizes == {<<1, 1>>, <<2, 2>>}
Configs == {"A", "B"}

\* A visible tile as draw() sees it: whether tile.getBucket(layer) yields a
\* bucket, the cache key of the bucket's program configuration, and what
\* pattern.isPatternMissing answers while this tile is handled.
\* coord.overscaledZ and tile.tileSize are 0 and 512 where they do not matter.
TileKinds ==
    {[bucket |-> FALSE, cfg |-> "A", missing |-> FALSE, z |-> 0, tileSize |-> 512]}
    \cup {[bucket |-> TRUE, cfg |-> c, missing |-> b, z |-> 0, tileSize |-> 512] :
             c \in Configs, b \in BOOLEAN}

RECURSIVE SeqsUpTo(_, _)
SeqsUpTo(S, n) ==
    IF n = 0 THEN {<<>>}
    ELSE LET shorter == SeqsUpTo(S, n - 1)
         IN  shorter \cup {Append(s, x) : s \in {t \in shorter : Len(t) = n - 1}, x \in S}

\* The frame loop draws plain layers: only the presence of a bucket matters.
FrameTileKinds == {t \in TileKinds : t.cfg = "A" /\ ~t.missing}

CoordLists == SeqsUpTo(FrameTileKinds, MaxTiles)
PassCoordLists == SeqsUpTo(TileKinds, MaxPassTiles)

\* Tiles with a bucket and a resident pattern, of every zoom and size.
TileSizes == {256, 512}
DrawTileKinds ==
    {[bucket |-> TRUE, cfg |-> "A", missing |-> FALSE, z |-> z, tileSize |-> ts] :
        z \in 0..MaxZoom, ts \in TileSizes}
DrawCoordLists == SeqsUpTo(DrawTileKinds, MaxDrawTiles)

\* painter.style.light: anchor, position, colour and intensity (tenths)
LightPositions == {<<1, 2, 3>>, <<-1, 0, 2>>}
LightColors == {<<10, 9, 8>>, <<0, 5, 10>>}
Lights ==
    {[anchor |-> a, position |-> p, color |-> c, intensity |-> 5] :
        a \in {"map", "viewport"}, p \in LightPositions, c \in LightColors}
DefaultLight == [anchor |-> "viewport", position |-> <<1, 2, 3>>, color |-> <<10, 9, 8>>,
                 intensity |-> 5]
\* painter.transform.angle, the bearing in quarter turns (multiples of pi/2)
Bearings == 0..3

\* The identifiers draw_fill_extrusion.js uses without declaring or importing
\* them; each resolves only if the host's global object happens to define it.
FreeIdentifiers == {"gl", "fillExtrusionPatternUniforms"}

----------------------------------------------------------------------------
(* Values.                                                                 *)

NoProgram == [name |-> "none", key |-> "none"]
ExtrusionTextureProgram == [name |-> "extrusionTexture", key |-> "none"]
Programs ==
    {[name |-> n, key |-> c] : n \in {"fillExtrusion", "fillExtrusionPattern"}, c \in Configs}
    \cup {ExtrusionTextureProgram}

\* layer.viewportFrame when absent (handle 0 is no framebuffer)
\* pixels: what the colour attachment holds, "new" for extrusions drawn by the
\* layer's latest accumulation pass and "old" for those of a pass before it
NoFrame == [handle |-> 0, width |-> 0, height |-> 0, depthAttachment |-> 0, colorAttachment |-> 0,
            pixels |-> {}]

InitContext ==
    [program |-> NoProgram, framebuffer |-> 0, texture |-> 0,
     stencilMode |-> "unset", depthMode |-> "unset", colorMode |-> "unset"]

\* The record of the latest draw() call, when there is none.
NoCall ==
    [layer |-> "none", pass |-> "none", opacity |-> 0, pattern |-> FALSE, coords |-> <<>>,
     before |-> [frameHandle |-> 0, target |-> NoFrame, needsClear |-> FALSE,
                 context |-> InitContext, allocated |-> 0],
     log |-> <<>>, threw |-> "none"]

\* The machine draw() runs on.
Machine == [painter |-> painter, context |-> context, layers |-> layers, gpu |-> gpu,
            log |-> <<>>, threw |-> "none"]

\* One GL command, with the tile index it was issued for (0: none), the
\* framebuffer bound and the needs-clear flag at the time it was issued.
Ev(m, op, k, program, arg, val) ==
    [op |-> op, k |-> k, program |-> program, arg |-> arg, val |-> val,
     fb |-> m.context.framebuffer, needsClear |-> m.painter.depthRboNeedsClear]

EmitVal(m, op, k, program, arg, val) ==
    [m EXCEPT !.log = Append(@, Ev(m, op, k, program, arg, val))]

Emit(m, op, k, program, arg) == EmitVal(m, op, k, program, arg, <<>>)

Throw(m, error) == [m EXCEPT !.threw = error]

\* The colour attachment of the bound framebuffer after a colour clear, and
\* after a draw call into it.
BoundTargets(m) ==
    {l \in Layers : m.layers[l].viewportFrame.handle # 0
                     /\ m.layers[l].viewportFrame.handle = m.context.framebuffer}

ClearPixels(m) ==
    [m EXCEPT !.layers = [l \in Layers |->
        IF l \in BoundTargets(m) THEN [@[l] EXCEPT !.viewportFrame.pixels = {}] ELSE @[l]]]

WritePixels(m) ==
    [m EXCEPT !.layers = [l \in Layers |->
        IF l \in BoundTargets(m) THEN [@[l] EXCEPT !.viewportFrame.pixels = @ \cup {"new"}]
        ELSE @[l]]]

\* What the layer's target holds when a new accumulation pass starts was drawn
\* by an earlier pass.
AgePixels(m, l) ==
    [m EXCEPT !.layers[l].viewportFrame.pixels = IF @ = {} THEN {} ELSE {"old"}]

----------------------------------------------------------------------------
(* Collaborators of draw_fill_extrusion.js (painter, context, pattern).    *)

\* painter.setupOffscreenDepthRenderbuffer(): the shared depth renderbuffer
\* is created on first use and kept
setupOffscreenDepthRenderbuffer(m) ==
    IF m.painter.depthRbo = 0
    THEN Emit([m EXCEPT !.painter.depthRbo = 1], "createRenderbuffer", 0, NoProgram, "depth")
    ELSE m

\* painter.useProgram(name, programConfiguration, uniforms): the program cached
\* under the name and the configuration's cache key, made current
useProgram(m, k, program) ==
    Emit([m EXCEPT !.context.program = program], "useProgram", k, program, "none")

\* painter.colorModeForRenderPass()
colorModeForRenderPass(m) == "alphaBlended"

\* pattern.isPatternMissing(image, painter), as answered while tile c is handled
isPatternMissing(c) == c.missing

\* what the host's global object resolves a free identifier to
Resolves(identifier) == identifier \in host

----------------------------------------------------------------------------
(* drawToExtrusionFramebuffer(painter, layer)                              *)

\* mutation of needsRenderTarget: the cached target is ignored
needsRenderTargetAlways(renderTarget) == TRUE

\* line 60: if (!renderTarget)
needsRenderTarget(renderTarget) == renderTarget.handle = 0

\* lines 61-65: a viewport-sized colour texture and framebuffer, cached on
\* the layer
createRenderTarget(m, l) ==
    LET tex == Cardinality(m.gpu) + 1
        fbo == Cardinality(m.gpu) + 2
        m1 == Emit([m EXCEPT !.gpu = @ \cup {[kind |-> "texture", handle |-> tex, owner |-> l,
                                               width |-> m.painter.width,
                                               height |-> m.painter.height]},
                             !.context.texture = tex],
                   "createTexture", 0, NoProgram, "RGBA")
        m2 == Emit([m1 EXCEPT !.gpu = @ \cup {[kind |-> "framebuffer", handle |-> fbo, owner |-> l,
                                                width |-> m.painter.width,
                                                height |-> m.painter.height]},
                              !.layers[l].viewportFrame =
                                  [handle |-> fbo, width |-> m.painter.width,
                                   height |-> m.painter.height, depthAttachment |-> 0,
                                   colorAttachment |-> tex, pixels |-> {}]],
                   "createFramebuffer", 0, NoProgram, "none")
    IN  m2

\* mutation of bindRenderTarget: the depth buffer is attached, the framebuffer
\* is not bound
attachWithoutBind(m, l) ==
    Emit([m EXCEPT !.layers[l].viewportFrame.depthAttachment = m.painter.depthRbo],
         "attachDepth", 0, NoProgram, "none")

\* lines 68-69: bind the layer's framebuffer, attach the shared depth buffer
bindRenderTarget(m, l) ==
    LET m1 == [m EXCEPT !.context.framebuffer = m.layers[l].viewportFrame.handle]
        m2 == Emit(m1, "bindFramebuffer", 0, NoProgram, "none")
        m3 == [m2 EXCEPT !.layers[l].viewportFrame.depthAttachment = m.painter.depthRbo]
    IN  Emit(m3, "attachDepth", 0, NoProgram, "none")

\* mutation of clearDepthOnce: the flag is left set after the clear
clearDepthKeepsFlag(m) ==
    IF m.painter.depthRboNeedsClear THEN Emit(m, "clear", 0, NoProgram, "depth") ELSE m

\* mutation of clearDepthOnce: the depth buffer is cleared whatever the flag
clearDepthAlways(m) ==
    [Emit(m, "clear", 0, NoProgram, "depth") EXCEPT !.painter.depthRboNeedsClear = FALSE]

\* lines 71-74: the one-time clear of the shared depth buffer
clearDepthOnce(m) ==
    IF m.painter.depthRboNeedsClear
    THEN [Emit(m, "clear", 0, NoProgram, "depth") EXCEPT !.painter.depthRboNeedsClear = FALSE]
    ELSE m

\* line 76: context.clear({ color: Color.transparent })
clearColor(m) == ClearPixels(Emit(m, "clear", 0, NoProgram, "color"))

\* mutation of drawToExtrusionFramebuffer: the colour attachment is cleared
\* only when the target is created
clearsNewTargetOnly(m, l) ==
    LET m0 == AgePixels(m, l)
        renderTarget == m0.layers[l].viewportFrame
        m1 == IF m0.painter.depthRboNeedsClear THEN setupOffscreenDepthRenderbuffer(m0) ELSE m0
        m2 == IF needsRenderTarget(renderTarget) THEN createRenderTarget(m1, l) ELSE m1
        m3 == bindRenderTarget(m2, l)
        m4 == clearDepthOnce(m3)
    IN  IF needsRenderTarget(renderTarget) THEN clearColor(m4) ELSE m4

\* lines 50-77
drawToExtrusionFramebuffer(m, l) ==
    LET m0 == AgePixels(m, l)
        renderTarget == m0.layers[l].viewportFrame
        m1 == IF m0.painter.depthRboNeedsClear THEN setupOffscreenDepthRenderbuffer(m0) ELSE m0
        m2 == IF needsRenderTarget(renderTarget) THEN createRenderTarget(m1, l) ELSE m1
        m3 == bindRenderTarget(m2, l)
        m4 == clearDepthOnce(m3)
    IN  clearColor(m4)

----------------------------------------------------------------------------
(* drawExtrusionTexture(painter, layer)                                    *)

\* mutation of blitRenderedTexture: the quad is drawn at full opacity
blitOpaque(m, l) ==
    LET renderedTexture == m.layers[l].viewportFrame
        program == ExtrusionTextureProgram
        m1 == useProgram(m, 0, program)
        m2 == Emit([m1 EXCEPT !.context.stencilMode = "disabled"], "setStencilMode", 0, program, "disabled")
        m3 == Emit([m2 EXCEPT !.context.depthMode = "disabled"], "setDepthMode", 0, program, "disabled")
        m4 == Emit([m3 EXCEPT !.context.colorMode = colorModeForRenderPass(m)], "setColorMode", 0,
                   program, colorModeForRenderPass(m))
        m5 == Emit([m4 EXCEPT !.context.texture = renderedTexture.colorAttachment], "bindTexture", 0,
                   program, "TEXTURE_2D")
        m6 == EmitVal(m5, "u_opacity", 0, program, "uniform1f", <<10>>)
        m7 == EmitVal(m6, "u_matrix", 0, program, "ortho", <<m.painter.width, m.painter.height>>)
    IN  EmitVal(m7, "drawArrays", 0, program, "TRIANGLE_STRIP", <<0, 4>>)

\* lines 83-104: the cached target's colour texture drawn as a viewport quad
blitRenderedTexture(m, l) ==
    LET renderedTexture == m.layers[l].viewportFrame
        program == ExtrusionTextureProgram
        m1 == useProgram(m, 0, program)
        m2 == Emit([m1 EXCEPT !.context.stencilMode = "disabled"], "setStencilMode", 0, program, "disabled")
        m3 == Emit([m2 EXCEPT !.context.depthMode = "disabled"], "setDepthMode", 0, program, "disabled")
        m4 == Emit([m3 EXCEPT !.context.colorMode = colorModeForRenderPass(m)], "setColorMode", 0,
                   program, colorModeForRenderPass(m))
        m5 == Emit([m4 EXCEPT !.context.texture = renderedTexture.colorAttachment], "bindTexture", 0,
                   program, "TEXTURE_2D")
        m6 == EmitVal(m5, "u_opacity", 0, program, "uniform1f", <<m.layers[l].opacity>>)
        m7 == EmitVal(m6, "u_matrix", 0, program, "ortho", <<m.painter.width, m.painter.height>>)
    IN  EmitVal(m7, "drawArrays", 0, program, "TRIANGLE_STRIP", <<0, 4>>)

\* mutation of drawExtrusionTexture: no test for an absent target
drawExtrusionTextureUnguarded(m, l) == blitRenderedTexture(m, l)

\* lines 79-105
drawExtrusionTexture(m, l) ==
    IF m.layers[l].viewportFrame.handle = 0 THEN m ELSE blitRenderedTexture(m, l)

----------------------------------------------------------------------------
(* drawExtrusion(painter, source, layer, tile, coord, bucket, first, ...)  *)

\* line 117: the program variant and the bucket's configuration select the
\* program
resolveProgram(image, c) ==
    [name |-> IF image THEN "fillExtrusionPattern" ELSE "fillExtrusion", key |-> c.cfg]

\* line 119: if (first || program.program !== prevProgram)
uploadsProgramUniforms(first, program, prevProgram) == first \/ program # prevProgram

\* gl-matrix, with angles in quarter turns: mat3.create(), mat3.fromRotation(out,
\* rad) and vec3.transformMat3(out, a, m); matrices are column-major
CosQ(q) == CASE q % 4 = 0 -> 1 [] q % 4 = 1 -> 0 [] q % 4 = 2 -> -1 [] OTHER -> 0
SinQ(q) == CASE q % 4 = 0 -> 0 [] q % 4 = 1 -> 1 [] q % 4 = 2 -> 0 [] OTHER -> -1

mat3create == <<1, 0, 0, 0, 1, 0, 0, 0, 1>>

mat3fromRotation(q) == <<CosQ(q), SinQ(q), 0, -SinQ(q), CosQ(q), 0, 0, 0, 1>>

vec3transformMat3(a, mt) ==
    <<a[1] * mt[1] + a[2] * mt[4] + a[3] * mt[7],
      a[1] * mt[2] + a[2] * mt[5] + a[3] * mt[8],
      a[1] * mt[3] + a[2] * mt[6] + a[3] * mt[9]>>

\* mutation of lightPosition: the sign of the bearing is dropped
lightPositionUnsigned(light, angle) ==
    vec3transformMat3(light.position,
                      IF light.anchor = "viewport" THEN mat3fromRotation(angle) ELSE mat3create)

\* lines 133-139: the light position in the frame of its anchor
lightPosition(light, angle) ==
    LET lightMat == IF light.anchor = "viewport" THEN mat3fromRotation(-angle) ELSE mat3create
    IN  vec3transformMat3(light.position, lightMat)

\* Exact quotients, as <<numerator, denominator>> in lowest terms.
RECURSIVE Pow2(_)
Pow2(n) == IF n = 0 THEN 1 ELSE 2 * Pow2(n - 1)

RECURSIVE Gcd(_, _)
Gcd(a, b) == IF b = 0 THEN a ELSE Gcd(b, a % b)

Abs(a) == IF a < 0 THEN -a ELSE a

Quotient(n, d) == LET g == Gcd(Abs(n), Abs(d)) IN <<n \div g, d \div g>>

DividedBy(q, n) == Quotient(q[1], q[2] * n)

\* mutation of heightFactor: the tile size divided by 8, not the quotient
heightFactorMisgrouped(c) == Quotient(-Pow2(c.z) * 8, c.tileSize)

\* line 159: -Math.pow(2, coord.overscaledZ) / tile.tileSize / 8
heightFactor(c) == DividedBy(DividedBy(<<-Pow2(c.z), 1>>, c.tileSize), 8)

\* lines 131-177: the per-draw uniforms (u_lightpos, u_lightintensity and
\* u_lightcolor as one value list; u_height_factor for a pattern) and the
\* draw call itself
issueDraw(m, l, k, c, program, image, depthMode, stencilMode, colorMode) ==
    LET light == m.painter.light
        m1 == EmitVal(m, "boundUniforms", k, program, "light",
                      lightPosition(light, m.painter.angle) \o <<light.intensity>> \o light.color)
        m2 == IF image THEN EmitVal(m1, "boundUniforms", k, program, "pattern", heightFactor(c))
              ELSE m1
        m3 == [m2 EXCEPT !.context.depthMode = depthMode,
                         !.context.stencilMode = stencilMode,
                         !.context.colorMode = colorMode]
    IN  WritePixels(EmitVal(m3, "draw", k, program, "TRIANGLES", <<>>))

\* lines 107-178
drawExtrusion(m, l, k, c, first, depthMode, stencilMode, colorMode) ==
    LET image == m.layers[l].pattern
        prevProgram == m.context.program
        program == resolveProgram(image, c)
    IN  IF image /\ isPatternMissing(c) THEN m
        ELSE IF image /\ ~Resolves("fillExtrusionPatternUniforms") THEN Throw(m, "ReferenceError")
        ELSE LET m1 == useProgram(m, k, program)
                 m2 == IF uploadsProgramUniforms(first, program, prevProgram)
                       THEN Emit(m1, "setUniforms", k, program, "programConfiguration")
                       ELSE m1
             IN  issueDraw(m2, l, k, c, program, image, depthMode, stencilMode, colorMode)

----------------------------------------------------------------------------
(* draw(painter, source, layer, coords)                                    *)

\* lines 33-44: the loop over the visible tiles, from tile k on.  Line 38
\* reads gl, which draw() does not declare: the first tile with a bucket
\* throws unless the host defines it.  (Line 39 calls StencilMode.disabled
\* while line 87 passes it as a value; StencilMode is not part of this file
\* and the call is taken to succeed.)
RECURSIVE drawTiles(_, _, _, _, _)
drawTiles(m, l, coords, k, first) ==
    IF k > Len(coords) \/ m.threw # "none" THEN m
    ELSE IF ~coords[k].bucket THEN drawTiles(m, l, coords, k + 1, first)
    ELSE IF ~Resolves("gl") THEN Throw(m, "ReferenceError")
    ELSE drawTiles(drawExtrusion(m, l, k, coords[k], first, "LEQUAL/ReadWrite/0..1",
                                 "disabled", colorModeForRenderPass(m)),
                   l, coords, k + 1, FALSE)

\* mutation of isTransparent: the comparison never succeeds
isTransparentNever(m, l) == m.layers[l].opacity < 0

\* line 25: layer.paint.get('fill-extrusion-opacity') === 0
isTransparent(m, l) == m.layers[l].opacity = 0

\* mutation of draw: the target is prepared before the opacity is looked at
drawPreparesTransparent(m, l, coords) ==
    IF m.painter.renderPass = "offscreen"
    THEN LET m1 == drawToExtrusionFramebuffer(m, l)
         IN  IF isTransparent(m, l) THEN m1 ELSE drawTiles(m1, l, coords, 1, TRUE)
    ELSE IF isTransparent(m, l) THEN m
    ELSE IF m.painter.renderPass = "translucent" THEN drawExtrusionTexture(m, l)
    ELSE m

\* mutation of draw: the two passes are taken for one another
drawPassesSwapped(m, l, coords) ==
    IF isTransparent(m, l) THEN m
    ELSE IF m.painter.renderPass = "translucent"
         THEN drawTiles(drawToExtrusionFramebuffer(m, l), l, coords, 1, TRUE)
    ELSE IF m.painter.renderPass = "offscreen" THEN drawExtrusionTexture(m, l)
    ELSE m

\* lines 24-48
draw(m, l, coords) ==
    IF isTransparent(m, l) THEN m
    ELSE IF m.painter.renderPass = "offscreen"
         THEN drawTiles(drawToExtrusionFramebuffer(m, l), l, coords, 1, TRUE)
    ELSE IF m.painter.renderPass = "translucent" THEN drawExtrusionTexture(m, l)
    ELSE m

----------------------------------------------------------------------------
(* The render loop around draw(): frames, passes, style and viewport.      *)

NoFrameHistory ==
    [status |-> "none", done |-> {}, flagResets |-> 0, depthClears |-> 0,
     accumulated |-> {}, prepared |-> {}, extruded |-> {}, composited |-> {}]

HasEvent(log, op, arg) == \E i \in 1..Len(log) : log[i].op = op /\ log[i].arg = arg

CountEvents(log, op, arg) == Cardinality({i \in 1..Len(log) : log[i].op = op /\ log[i].arg = arg})

TypeOK ==
    /\ painter.renderPass \in {"offscreen", "opaque", "translucent"}
    /\ <<painter.width, painter.height>> \in ViewportSizes
    /\ painter.depthRboNeedsClear \in BOOLEAN
    /\ context.program \in Programs \cup {NoProgram}
    /\ \A l \in Layers : layers[l].opacity \in Opacities /\ layers[l].pattern \in BOOLEAN
    /\ host \subseteq FreeIdentifiers
    /\ frame.done \subseteq Layers

Init ==
    /\ painter = [renderPass |-> "translucent", width |-> 1, height |-> 1,
                  depthRboNeedsClear |-> FALSE, depthRbo |-> 0,
                  angle |-> 0, light |-> DefaultLight]
    /\ context = InitContext
    /\ layers \in [Layers -> {[opacity |-> o, pattern |-> FALSE, viewportFrame |-> NoFrame] :
                                o \in Opacities}]
    /\ host \in SUBSET {"gl"}
    /\ gpu = {}
    /\ frame = NoFrameHistory
    /\ last = NoCall

FrameRunning == frame.status = "running"

\* The render loop starts a frame: the accumulation pass comes first and the
\* shared depth buffer is marked as needing its clear.
BeginFrame ==
    /\ ~FrameRunning
    /\ painter' = [painter EXCEPT !.renderPass = "offscreen", !.depthRboNeedsClear = TRUE]
    /\ frame' = [NoFrameHistory EXCEPT !.status = "running"]
    /\ last' = NoCall
    /\ UNCHANGED <<context, layers, host, gpu>>

\* What one call of draw() leaves behind.
Call(l, coords, m) ==
    [layer |-> l, pass |-> painter.renderPass, opacity |-> layers[l].opacity,
     pattern |-> layers[l].pattern, coords |-> coords,
     before |-> [frameHandle |-> layers[l].viewportFrame.handle,
                 target |-> layers[l].viewportFrame,
                 needsClear |-> painter.depthRboNeedsClear,
                 context |-> context, allocated |-> Cardinality(gpu)],
     log |-> m.log, threw |-> m.threw]

Commit(l, coords, m) ==
    /\ painter' = m.painter
    /\ context' = m.context
    /\ layers' = m.layers
    /\ gpu' = m.gpu
    /\ last' = Call(l, coords, m)
    /\ frame' = [frame EXCEPT
           !.status = IF m.threw = "none" THEN "running" ELSE "aborted",
           !.done = @ \cup {l},
           !.flagResets = @ + (IF painter.depthRboNeedsClear /\ ~m.painter.depthRboNeedsClear
                               THEN 1 ELSE 0),
           !.depthClears = @ + CountEvents(m.log, "clear", "depth"),
           !.accumulated = @ \cup (IF painter.renderPass = "offscreen" /\ layers[l].opacity # 0
                                   THEN {l} ELSE {}),
           !.prepared = @ \cup (IF HasEvent(m.log, "clear", "color") THEN {l} ELSE {}),
           !.extruded = @ \cup (IF HasEvent(m.log, "draw", "TRIANGLES") THEN {l} ELSE {}),
           !.composited = @ \cup (IF HasEvent(m.log, "drawArrays", "TRIANGLE_STRIP")
                                  THEN {l} ELSE {})]
    /\ UNCHANGED host

\* The render loop draws layer l in the current pass, once per pass, handing
\* it the visible tiles; an error thrown by draw() ends the frame.
Draw(l, coords) ==
    /\ FrameRunning
    /\ l \notin frame.done
    /\ LET m == draw(Machine, l, coords) IN Commit(l, coords, m)

\* The render loop moves on to the next pass; leaving the accumulation pass it
\* binds the main framebuffer again.
NextPass ==
    /\ FrameRunning
    /\ painter.renderPass # "translucent"
    /\ painter' = [painter EXCEPT !.renderPass =
                       IF @ = "offscreen" THEN "opaque" ELSE "translucent"]
    /\ context' = [context EXCEPT !.framebuffer = 0]
    /\ frame' = [frame EXCEPT !.done = {}]
    /\ last' = NoCall
    /\ UNCHANGED <<layers, host, gpu>>

EndFrame ==
    /\ FrameRunning
    /\ painter.renderPass = "translucent"
    /\ frame' = [frame EXCEPT !.status = "ended"]
    /\ last' = NoCall
    /\ UNCHANGED <<painter, context, layers, host, gpu>>

\* Between frames the style may change a layer's opacity.
SetOpacity(l, o) ==
    /\ ~FrameRunning
    /\ layers[l].opacity # o
    /\ layers' = [layers EXCEPT ![l].opacity = o]
    /\ last' = NoCall
    /\ UNCHANGED <<painter, context, host, gpu, frame>>

\* Between frames the viewport may be resized.
Resize(size) ==
    /\ ~FrameRunning
    /\ size # <<painter.width, painter.height>>
    /\ painter' = [painter EXCEPT !.width = size[1], !.height = size[2]]
    /\ last' = NoCall
    /\ UNCHANGED <<context, layers, host, gpu, frame>>

DrawLayer == \E l \in Layers, coords \in CoordLists : Draw(l, coords)
ChangeOpacity == \E l \in Layers, o \in Opacities : SetOpacity(l, o)
ChangeViewport == \E size \in ViewportSizes : Resize(size)

Next ==
    \/ BeginFrame
    \/ DrawLayer
    \/ NextPass
    \/ EndFrame
    \/ ChangeOpacity

\* The frames of a map whose viewport keeps its size.
Spec == Init /\ [][Next]_vars

\* The frames of a map whose viewport may be resized between them.
NextResize ==
    \/ Next
    \/ ChangeViewport

SpecResize == Init /\ [][NextResize]_vars

----------------------------------------------------------------------------
(* One accumulation pass over a longer tile list, for a plain or patterned *)
(* layer, whatever program the GL context was left with.                   *)

InitPass ==
    /\ painter = [renderPass |-> "offscreen", width |-> 1, height |-> 1,
                  depthRboNeedsClear |-> TRUE, depthRbo |-> 0,
                  angle |-> 0, light |-> DefaultLight]
    /\ context \in {[InitContext EXCEPT !.program = p] : p \in Programs \cup {NoProgram}}
    /\ layers \in {[l \in Layers |-> [opacity |-> 5, pattern |-> (l = "L1" /\ image),
                                       viewportFrame |-> NoFrame]] : image \in BOOLEAN}
    /\ host \in SUBSET FreeIdentifiers
    /\ gpu = {}
    /\ frame = [NoFrameHistory EXCEPT !.status = "running"]
    /\ last = NoCall

AccumulateLayer == \E coords \in PassCoordLists : Draw("L1", coords)

NextPassLevel == AccumulateLayer

SpecPass == InitPass /\ [][NextPassLevel]_vars

----------------------------------------------------------------------------
(* One accumulation pass under every light, bearing, zoom and tile size.   *)

InitDraw ==
    /\ painter \in {[renderPass |-> "offscreen", width |-> 1, height |-> 1,
                      depthRboNeedsClear |-> TRUE, depthRbo |-> 0,
                      angle |-> a, light |-> lt] : a \in Bearings, lt \in Lights}
    /\ context = InitContext
    /\ layers \in {[l \in Layers |-> [opacity |-> 5, pattern |-> (l = "L1" /\ image),
                                       viewportFrame |-> NoFrame]] : image \in BOOLEAN}
    /\ host \in SUBSET FreeIdentifiers
    /\ gpu = {}
    /\ frame = [NoFrameHistory EXCEPT !.status = "running"]
    /\ last = NoCall

AccumulateTiles == \E coords \in DrawCoordLists : Draw("L1", coords)

NextDraw == AccumulateTiles

SpecDraw == InitDraw /\ [][NextDraw]_vars

----------------------------------------------------------------------------
(* What a recorded call did.                                               *)

Called == last.layer # "none"
Accumulation == Called /\ last.pass = "offscreen" /\ last.opacity # 0
Compositing == Called /\ last.pass = "translucent" /\ last.opacity # 0

EventIndices(op, arg) == {i \in 1..Len(last.log) : last.log[i].op = op /\ last.log[i].arg = arg}

\* draw calls of either kind issued by the call
DrawCalls == EventIndices("draw", "TRIANGLES") \cup EventIndices("drawArrays", "TRIANGLE_STRIP")

\* the tiles (indices into coords) an extrusion draw call was issued for
DrawnTiles == {last.log[i].k : i \in EventIndices("draw", "TRIANGLES")}

\* the tiles program-constant uniforms were uploaded for
UploadedTiles == {last.log[i].k : i \in EventIndices("setUniforms", "programConfiguration")}

TargetOf(l) == layers[l].viewportFrame

TargetsOwnedBy(l) == {g \in gpu : g.kind = "framebuffer" /\ g.owner = l}

----------------------------------------------------------------------------
(* Claims.                                                                 *)

\* C1: a draw() call for a layer whose opacity is exactly 0 issues no GL
\* command at all (so no draw call) and allocates nothing, in the
\* accumulation and in the compositing pass alike: no texture or framebuffer
\* is created and the layer's cached target is what it was.
C1_ZeroOpacityDoesNothing ==
    (Called /\ last.opacity = 0) =>
        /\ last.log = <<>>
        /\ Cardinality(gpu) = last.before.allocated
        /\ TargetOf(last.layer).handle = last.before.frameHandle
        /\ context = last.before.context

\* a transparent layer without a target was handed a tile with a bucket in the
\* accumulation pass
C1_Witness ==
    /\ Called /\ last.opacity = 0 /\ last.pass = "offscreen"
    /\ last.before.frameHandle = 0
    /\ \E k \in 1..Len(last.coords) : last.coords[k].bucket

\* C2 as stated: in every frame the needs-clear flag goes from true to false
\* exactly once.
C2_ExactlyOncePerFrame == frame.status = "ended" => frame.flagResets = 1

\* C2 as amended: the needs-clear flag goes from true to false at most once
\* per frame; exactly once, with the first accumulation pass of a layer of
\* non-zero opacity, however many such layers follow; and not at all in a
\* frame without such a pass, which leaves the flag set.
C2_AtMostOncePerFrame ==
    /\ frame.flagResets <= 1
    /\ frame.accumulated # {} => frame.flagResets = 1 /\ ~painter.depthRboNeedsClear
    /\ (frame.status # "none" /\ frame.accumulated = {}) =>
           frame.flagResets = 0 /\ painter.depthRboNeedsClear

\* both layers went through the accumulation pass of one frame
C2_Witness == frame.accumulated = Layers /\ frame.flagResets = 1

\* C3 as stated: in every frame the shared depth buffer is cleared exactly
\* once, before the first extrusion draw call.
C3_ClearedOnceEveryFrame ==
    /\ frame.status = "ended" => frame.depthClears = 1
    /\ \A i \in EventIndices("draw", "TRIANGLES") : ~last.log[i].needsClear

\* C3 as amended: in every frame in which a layer of non-zero opacity goes
\* through the accumulation pass the shared depth buffer is cleared exactly
\* once, and in other frames not at all; the clear comes before every
\* extrusion draw call of the frame (none is issued while the flag is set),
\* and no later layer of the frame clears the depth buffer again.
C3_ClearedOnceBeforeDraws ==
    /\ frame.depthClears <= 1
    /\ frame.accumulated # {} => frame.depthClears = 1
    /\ (frame.status # "none" /\ frame.accumulated = {}) => frame.depthClears = 0
    /\ \A i \in EventIndices("draw", "TRIANGLES") :
           /\ ~last.log[i].needsClear
           /\ frame.depthClears = 1
           /\ \A j \in EventIndices("clear", "depth") : j < i
    /\ (Accumulation /\ ~last.before.needsClear) => EventIndices("clear", "depth") = {}

\* the second layer of a frame issued an extrusion draw call after the first
\* layer had cleared the depth buffer
C3_Witness ==
    /\ Accumulation /\ frame.accumulated = Layers
    /\ ~last.before.needsClear
    /\ DrawnTiles # {}
    /\ frame.depthClears = 1

\* C4: an accumulation pass of a layer that already has a render target keeps
\* that target (same handle) and creates no texture or framebuffer, in the
\* same or a later frame; no layer ever owns more than one target.
C4_AllocateOnce ==
    /\ (Accumulation /\ last.before.frameHandle # 0) =>
           /\ TargetOf(last.layer).handle = last.before.frameHandle
           /\ Cardinality(gpu) = last.before.allocated
    /\ \A l \in Layers : Cardinality(TargetsOwnedBy(l)) <= 1
    /\ \A l \in Layers : TargetOf(l).handle # 0 =>
           TargetOf(l).handle \in {g.handle : g \in TargetsOwnedBy(l)}

\* a layer that already had a target went through another accumulation pass
C4_Witness ==
    /\ Accumulation /\ last.before.frameHandle # 0
    /\ \A l \in Layers : TargetOf(l).handle # 0

\* C5: after every prepare the layer's render target has the size of the
\* current viewport (a stale target is replaced).
C5_TargetMatchesViewport ==
    Accumulation =>
        /\ TargetOf(last.layer).width = painter.width
        /\ TargetOf(last.layer).height = painter.height

\* C6: a layer's compositing draw occurs in a frame only if the layer
\* rendered into its target in the accumulation pass of that frame.
C6_CompositedOnlyIfProduced == frame.composited \subseteq frame.prepared

\* C7: a compositing draw() of a layer that has no cached render target does
\* nothing: no GL command is issued (no program selected, no draw call) and
\* the context's program, modes and bindings are what they were.
C7_NoTargetNoBlit ==
    (Compositing /\ last.before.frameHandle = 0) =>
        /\ last.log = <<>>
        /\ context = last.before.context
        /\ TargetOf(last.layer) = NoFrame

\* a layer of non-zero opacity that never went through an accumulation pass
\* was drawn in the compositing pass
C7_Witness == Compositing /\ last.before.frameHandle = 0

\* the programs the tiles with a bucket resolve to, in input order
RECURSIVE ResolvedPrograms(_, _)
ResolvedPrograms(image, coords) ==
    IF coords = <<>> THEN <<>>
    ELSE LET rest == ResolvedPrograms(image, Tail(coords))
         IN  IF Head(coords).bucket THEN <<resolveProgram(image, Head(coords))>> \o rest
             ELSE rest

\* 1 plus the number of adjacent changes of a non-empty program sequence
ExpectedUploads(programs) ==
    IF programs = <<>> THEN 0
    ELSE 1 + Cardinality({i \in 2..Len(programs) : programs[i] # programs[i - 1]})

NoTileSkipped == ~last.pattern \/ \A k \in 1..Len(last.coords) : ~last.coords[k].missing

\* C8: in an accumulation pass in which no tile is skipped for a missing
\* pattern, the program-constant uniforms are uploaded once for the first
\* tile and once more at every change of program between adjacent tiles.
C8_UploadsPerProgramChange ==
    (Accumulation /\ NoTileSkipped) =>
        Cardinality(UploadedTiles) = ExpectedUploads(ResolvedPrograms(last.pattern, last.coords))

\* C9: in an accumulation pass of a patterned layer over tiles that all have
\* a bucket, with the pattern missing for exactly one tile, a draw call is
\* issued for every other tile and for none else.
C9_OnlyMissingTileSkipped ==
    (/\ Accumulation /\ last.pattern
     /\ \A k \in 1..Len(last.coords) : last.coords[k].bucket
     /\ Cardinality({k \in 1..Len(last.coords) : last.coords[k].missing}) = 1) =>
        DrawnTiles = {k \in 1..Len(last.coords) : ~last.coords[k].missing}

\* C10: an accumulation pass of a layer of non-zero opacity returns normally
\* and handles every tile that has a bucket: a draw call is issued for it
\* unless its pattern is missing.
C10_PassRunsToCompletion ==
    Accumulation =>
        /\ last.threw = "none"
        /\ \A k \in 1..Len(last.coords) :
               last.coords[k].bucket =>
                   (k \in DrawnTiles \/ (last.pattern /\ last.coords[k].missing))

\* C11: extrusion (accumulation) draw calls are issued only by a call in the
\* accumulation pass and only for a layer not yet composited in the frame, and
\* the compositing draw only by a call in the compositing pass; once a layer
\* has been composited the frame is in its compositing pass, so no
\* accumulation draw of the frame follows or interleaves with it.
C11_AccumulationBeforeCompositing ==
    /\ \A i \in EventIndices("draw", "TRIANGLES") :
           /\ last.pass = "offscreen"
           /\ last.layer \notin frame.composited
           /\ EventIndices("drawArrays", "TRIANGLE_STRIP") = {}
    /\ EventIndices("drawArrays", "TRIANGLE_STRIP") # {} => last.pass = "translucent"
    /\ frame.composited # {} => painter.renderPass = "translucent"

\* a layer whose extrusions were drawn in the accumulation pass of the frame
\* was composited later in that frame
C11_Witness ==
    /\ Compositing
    /\ EventIndices("drawArrays", "TRIANGLE_STRIP") # {}
    /\ last.layer \in frame.extruded

\* the j-th event of the call is the upload of the given per-draw uniforms
\* for tile t
IsUpload(j, arg, t) ==
    /\ last.log[j].op = "boundUniforms" /\ last.log[j].arg = arg /\ last.log[j].k = t

\* C12: the light position uploaded for a tile draw is the configured
\* position when the light is anchored to the map, whatever the bearing, and
\* the configured position rotated by minus the bearing about the z axis when
\* it is anchored to the viewport (quarter turns: unchanged, (y, -x, z),
\* (-x, -y, z), (-y, x, z)); intensity and colour are uploaded as configured;
\* and every extrusion draw call is preceded by such an upload for its tile.
C12_LightPosition ==
    /\ \A i \in EventIndices("boundUniforms", "light") :
           LET v == last.log[i].val
               p == painter.light.position
               a == painter.angle
           IN  /\ painter.light.anchor = "map" => SubSeq(v, 1, 3) = p
               /\ painter.light.anchor = "viewport" =>
                      SubSeq(v, 1, 3) = CASE a = 0 -> p
                                          [] a = 1 -> <<p[2], -p[1], p[3]>>
                                          [] a = 2 -> <<-p[1], -p[2], p[3]>>
                                          [] OTHER -> <<-p[2], p[1], p[3]>>
               /\ v[4] = painter.light.intensity
               /\ SubSeq(v, 5, 7) = painter.light.color
    /\ \A i \in EventIndices("draw", "TRIANGLES") :
           \E j \in 1..(i - 1) : IsUpload(j, "light", last.log[i].k)

\* two tiles were drawn under a viewport-anchored light at a quarter turn
C12_Witness ==
    /\ Accumulation /\ Cardinality(DrawnTiles) = 2
    /\ painter.light.anchor = "viewport" /\ painter.angle = 1
    /\ painter.light.position = <<1, 2, 3>>

\* C13: the height factor uploaded for a patterned tile draw is the exact
\* quotient -(2^z) / tileSize / 8 of the tile's overscaled zoom and tile size
\* (-1/4096 at z = 0 and -1/1024 at z = 2 for 512-unit tiles); every draw call
\* of a patterned layer is preceded by that upload for its tile, and a plain
\* layer uploads none.
C13_HeightFactor ==
    /\ \A i \in EventIndices("boundUniforms", "pattern") :
           LET q == last.log[i].val
               c == last.coords[last.log[i].k]
           IN  /\ last.pattern
               /\ q[2] > 0
               /\ q[1] * c.tileSize * 8 = -(2 ^ c.z) * q[2]
               /\ (c.z = 0 /\ c.tileSize = 512) => q = <<-1, 4096>>
               /\ (c.z = 2 /\ c.tileSize = 512) => q = <<-1, 1024>>
    /\ \A i \in EventIndices("draw", "TRIANGLES") :
           last.pattern <=> \E j \in 1..(i - 1) : IsUpload(j, "pattern", last.log[i].k)

\* a patterned layer drew a 512-unit tile of zoom 2 and a 256-unit tile
C13_Witness ==
    /\ Accumulation /\ last.pattern /\ Cardinality(DrawnTiles) = 2
    /\ \E k \in DrawnTiles : last.coords[k].z = 2 /\ last.coords[k].tileSize = 512
    /\ \E k \in DrawnTiles : last.coords[k].tileSize = 256

\* the tiles of the extrusion draw calls, in the order the calls were issued
DrawnSequence ==
    LET calls == SelectSeq(last.log, LAMBDA e : e.op = "draw" /\ e.arg = "TRIANGLES")
    IN  [i \in 1..Len(calls) |-> calls[i].k]

\* the tiles of the input list that have a bucket, in input order
BucketSequence ==
    SelectSeq([k \in 1..Len(last.coords) |-> k], LAMBDA k : last.coords[k].bucket)

\* C14: an accumulation pass in which no tile is skipped for a missing
\* pattern prepares the target exactly once before any tile is handled, and
\* then issues exactly one triangle-list draw call for every tile that has a
\* bucket and none for the others, in input order, with the depth test
\* less-or-equal, read-write over [0, 1] and the stencil test disabled.
C14_DrawsFollowInput ==
    (Accumulation /\ NoTileSkipped) =>
        /\ CountEvents(last.log, "bindFramebuffer", "none") = 1
        /\ CountEvents(last.log, "clear", "color") = 1
        /\ \A i \in 1..Len(last.log) :
               last.log[i].k # 0 => \A j \in EventIndices("clear", "color") : j < i
        /\ DrawnSequence = BucketSequence
        /\ DrawnTiles # {} =>
               /\ context.depthMode = "LEQUAL/ReadWrite/0..1"
               /\ context.stencilMode = "disabled"

\* C15: in every accumulation pass the first extrusion draw call that is
\* issued is preceded by the upload of the program-constant uniforms for its
\* tile, whatever program the context had when the pass began and whatever
\* tiles were skipped before it.
C15_FirstDrawUploads ==
    (Accumulation /\ DrawnTiles # {}) =>
        LET i == CHOOSE d \in EventIndices("draw", "TRIANGLES") :
                     \A e \in EventIndices("draw", "TRIANGLES") : d <= e
        IN  \E j \in 1..(i - 1) :
                /\ last.log[j].op = "setUniforms"
                /\ last.log[j].k = last.log[i].k

\* C16: after the prepare of an accumulation pass the bound framebuffer is
\* the render target of the layer being drawn, a framebuffer created for that
\* layer and not the main framebuffer (0), with the shared depth renderbuffer
\* attached; the colour clear and every extrusion draw call of the pass are
\* issued with it bound, after the bind and the attach; and the depth clear
\* is issued after the bind and the attach too.
C16_OwnTargetBound ==
    Accumulation =>
        LET target == TargetOf(last.layer)
            Prepared(i) ==
                /\ last.log[i].fb = target.handle
                /\ \E a \in EventIndices("attachDepth", "none") :
                       /\ a < i
                       /\ \E b \in EventIndices("bindFramebuffer", "none") : b < a
        IN  /\ target.handle # 0
            /\ target.handle \in {g.handle : g \in TargetsOwnedBy(last.layer)}
            /\ \A l \in Layers \ {last.layer} : TargetOf(l).handle # target.handle
            /\ context.framebuffer = target.handle
            /\ painter.depthRbo # 0
            /\ target.depthAttachment = painter.depthRbo
            /\ \A i \in EventIndices("draw", "TRIANGLES") : Prepared(i)
            /\ \A i \in EventIndices("clear", "color") : Prepared(i)
            /\ \A i \in EventIndices("clear", "depth") : Prepared(i)

\* a layer drew extrusions while another layer's target had been bound before
\* its pass
C16_Witness ==
    /\ Accumulation /\ DrawnTiles # {}
    /\ last.before.context.framebuffer # 0
    /\ last.before.context.framebuffer # TargetOf(last.layer).handle

\* C17: every accumulation pass of a layer of non-zero opacity clears the
\* colour attachment of the layer's target exactly once, with that target
\* bound and before every extrusion draw call of the pass, whether the target
\* is new or reused and whatever the tile list; so no target ever holds
\* extrusions drawn before its layer's latest accumulation pass, and after a
\* pass that drew nothing it holds none at all.
C17_ColorClearedEveryPass ==
    /\ Accumulation =>
           /\ CountEvents(last.log, "clear", "color") = 1
           /\ \A j \in EventIndices("clear", "color") :
                  /\ last.log[j].fb = TargetOf(last.layer).handle
                  /\ \A i \in EventIndices("draw", "TRIANGLES") : j < i
           /\ DrawnTiles = {} => TargetOf(last.layer).pixels = {}
    /\ \A l \in Layers : "old" \notin TargetOf(l).pixels

\* a target that held the extrusions of an earlier pass was reused by a pass
\* whose tiles were all skipped
C17_Witness ==
    /\ Accumulation /\ last.before.frameHandle # 0
    /\ "new" \in last.before.target.pixels
    /\ last.coords # <<>> /\ DrawnTiles = {}
    /\ last.threw = "none"

\* C18: a compositing draw() of a layer of non-zero opacity that has a render
\* target issues the same eight commands whatever the tile list, none of them
\* for a tile: the extrusionTexture program, stencil and depth test disabled,
\* the colour mode, the target's own colour texture bound, the opacity
\* uniform set to the layer's current opacity, the projection, and exactly
\* one draw call, a triangle strip of 4 vertices from vertex 0; no extrusion
\* draw call is issued.
C18_OneCompositingDraw ==
    (Compositing /\ last.before.frameHandle # 0) =>
        LET target == TargetOf(last.layer)
            log == last.log
        IN  /\ [i \in 1..Len(log) |-> log[i].op] =
                   <<"useProgram", "setStencilMode", "setDepthMode", "setColorMode",
                     "bindTexture", "u_opacity", "u_matrix", "drawArrays">>
            /\ \A i \in 1..Len(log) : log[i].k = 0 /\ log[i].program = ExtrusionTextureProgram
            /\ Cardinality(DrawCalls) = 1
            /\ log[8].arg = "TRIANGLE_STRIP" /\ log[8].val = <<0, 4>>
            /\ log[2].arg = "disabled" /\ context.stencilMode = "disabled"
            /\ log[3].arg = "disabled" /\ context.depthMode = "disabled"
            /\ context.texture = target.colorAttachment
            /\ \E g \in gpu : /\ g.kind = "texture" /\ g.owner = last.layer
                               /\ g.handle = target.colorAttachment
            /\ log[6].val = <<layers[last.layer].opacity>>
            /\ layers[last.layer].opacity \in Opacities \ {0}

\* a layer at half opacity was composited over a list of tiles, one with a
\* bucket, while the other layer's texture was the one bound
C18_Witness ==
    /\ Compositing /\ last.before.frameHandle # 0
    /\ last.opacity = 5
    /\ \E k \in 1..Len(last.coords) : last.coords[k].bucket
    /\ last.before.context.texture # 0
    /\ last.before.context.texture # TargetOf(last.layer).colorAttachment

\* C19: a draw() call outside the accumulation pass leaves the layer's cached
\* render target (handle, attachments, size and contents), the needs-clear
\* flag and the bound framebuffer as they were; in a pass that is neither the
\* accumulation nor the compositing pass it issues no command at all; and a
\* call for a layer of zero opacity in the accumulation pass leaves the
\* needs-clear flag as it was, so a set flag stays set for the next layer.
C19_OnlyAccumulationMutates ==
    /\ (Called /\ last.pass # "offscreen") =>
           /\ TargetOf(last.layer) = last.before.target
           /\ painter.depthRboNeedsClear = last.before.needsClear
           /\ context.framebuffer = last.before.context.framebuffer
           /\ Cardinality(gpu) = last.before.allocated
    /\ (Called /\ last.pass \notin {"offscreen", "translucent"}) =>
           /\ DrawCalls = {}
           /\ last.log = <<>>
    /\ (Called /\ last.pass = "offscreen" /\ last.opacity = 0) =>
           /\ painter.depthRboNeedsClear = last.before.needsClear
           /\ last.before.needsClear => painter.depthRboNeedsClear

\* a target left by an earlier frame was composited in a frame whose
\* needs-clear flag was still set
C19_Witness ==
    /\ Compositing
    /\ EventIndices("drawArrays", "TRIANGLE_STRIP") # {}
    /\ last.before.needsClear
    /\ "new" \in last.before.target.pixels

====
